---- MODULE Spec2Model ----
(***************************************************************************)
(* Model of the Axiom Trade filter: the record decoders (models.py), the   *)
(* filter policy and statistics (filters.py), the configuration            *)
(* (config.py) and the mitmproxy hooks (axiom_filter.py).                  *)
(*                                                                         *)
(* Python / JSON values are tagged records [t |-> tag, v |-> payload]:     *)
(*   null, bool, num, str, list (v a sequence), dict (v a function from    *)
(*   key strings to values), the decoded dataclasses, and "raise" for a    *)
(*   call that ends by raising the exception named in v.                   *)
(***************************************************************************)
EXTENDS Integers, Sequences, FiniteSets, TLC

VARIABLES config, stats, flow, op, arg, result, threads

vars == <<config, stats, flow, op, arg, result, threads>>

----------------------------------------------------------------------------
(* Python values *)

NoneV == [t |-> "null", v |-> 0]
Bool(b) == [t |-> "bool", v |-> b]
Num(n) == [t |-> "num", v |-> n]
Str(s) == [t |-> "str", v |-> s]
List(s) == [t |-> "list", v |-> s]
Dict(f) == [t |-> "dict", v |-> f]
Raise(e) == [t |-> "raise", v |-> e]

True == Bool(TRUE)
False == Bool(FALSE)
EmptyDict == Dict([k \in {} |-> NoneV])
EmptyList == List(<<>>)

IsRaise(x) == x.t = "raise"
IsDict(x) == x.t = "dict"
IsList(x) == x.t = "list"

\* bool(x): Python truthiness
Truthy(x) ==
    CASE x.t = "null" -> FALSE
      [] x.t = "bool" -> x.v
      [] x.t = "num" -> x.v # 0
      [] x.t = "str" -> x.v # ""
      [] x.t = "list" -> Len(x.v) > 0
      [] x.t = "dict" -> DOMAIN x.v # {}
      [] OTHER -> TRUE

\* d.get(key, default) on a dict
Get(d, key, default) == IF key \in DOMAIN d.v THEN d.v[key] ELSE default

\* data[i] on a list (Python indices start at 0)
At(data, i) == data.v[i + 1]

\* len(data) on a list
PyLen(data) == Len(data.v)

\* the element of a one-element set: { e(x) : x \in {a} } computes a once and
\* names it x in e
The(S) == CHOOSE x \in S : TRUE

\* x in s for a Python set s: an unhashable x raises TypeError
Hashable(x) == x.t \notin {"list", "dict"}

----------------------------------------------------------------------------
(* models.py: the decoders *)

\* index of the last positional field of UpdatePulseItem (field_42)
LastFieldIndex == 42

\* DevWalletFunding.from_ws_array
from_ws_array(data) ==
    IF ~Truthy(data) THEN NoneV
    ELSE IF ~IsDict(data) THEN Raise("AttributeError")
    ELSE [t |-> "DevWalletFunding",
          v |-> [wallet_address |-> Get(data, "walletAddress", Str("")),
                 funding_wallet_address |-> Get(data, "fundingWalletAddress", Str("")),
                 signature |-> Get(data, "signature", Str("")),
                 amount_sol |-> Get(data, "amountSol", Num(0)),
                 funded_at |-> Get(data, "fundedAt", Str(""))]]

\* DevWalletFunding.from_xhr
from_xhr(data) ==
    IF ~Truthy(data) THEN NoneV
    ELSE IF ~IsDict(data) THEN Raise("AttributeError")
    ELSE [t |-> "DevWalletFunding",
          v |-> [wallet_address |-> Get(data, "walletAddress", Str("")),
                 funding_wallet_address |-> Get(data, "fundingWalletAddress", Str("")),
                 signature |-> Get(data, "signature", Str("")),
                 amount_sol |-> Get(data, "amountSol", Num(0)),
                 funded_at |-> Get(data, "fundedAt", Str(""))]]

\* ProtocolDetails.from_dict
ProtocolDetails_from_dict(data) ==
    [t |-> "ProtocolDetails",
     v |-> [creator |-> Get(data, "creator", Str("")),
            is_token_side_x |-> Get(data, "isTokenSideX", NoneV),
            token_program |-> Get(data, "tokenProgram", NoneV),
            pair_sol_account |-> Get(data, "pairSolAccount", NoneV),
            pair_token_account |-> Get(data, "pairTokenAccount", NoneV),
            global_addr |-> Get(data, "global", NoneV),
            fee_recipient |-> Get(data, "feeRecipient", NoneV),
            associated_bonding_curve |-> Get(data, "associatedBondingCurve", NoneV),
            event_authority |-> Get(data, "eventAuthority", NoneV),
            is_offchain |-> Get(data, "isOffchain", NoneV)]]

\* the "else" value of each positional field in UpdatePulseItem.from_array
FieldDefault(i) ==
    CASE i \in {0, 1, 2, 3, 4, 7} -> Str("")
      [] i \in {6, 23, 24, 25, 28, 29, 40} -> Num(0)
      [] i \in (13..22) \cup {26, 27} -> Num(0)
      [] i = 36 -> EmptyList
      [] i = 38 -> False
      [] OTHER -> NoneV

\* UpdatePulseItem.from_array, the decoded item's fields keyed by their index
from_array(data) ==
    IF data.t \in {"null", "bool", "num"} THEN Raise("TypeError")
    ELSE IF IsDict(data)
         THEN IF DOMAIN data.v = {}
              THEN [t |-> "UpdatePulseItem",
                    v |-> [i \in 0..LastFieldIndex |-> FieldDefault(i)]]
              ELSE Raise("KeyError")
    ELSE
    LET protocol_details ==
            IF PyLen(data) > 8 /\ IsDict(At(data, 8))
            THEN ProtocolDetails_from_dict(At(data, 8))
            ELSE NoneV
        dev_wallet_funding ==
            IF PyLen(data) > 39 /\ Truthy(At(data, 39))
            THEN from_ws_array(At(data, 39))
            ELSE NoneV
    IN  IF IsRaise(dev_wallet_funding) THEN dev_wallet_funding
        ELSE [t |-> "UpdatePulseItem",
              v |-> [i \in 0..LastFieldIndex |->
                       CASE i = 8 -> protocol_details
                         [] i = 39 -> dev_wallet_funding
                         [] OTHER -> IF PyLen(data) > i THEN At(data, i)
                                     ELSE FieldDefault(i)]]

\* XHRPulseResponse.from_dict
from_dict(data) ==
    IF ~IsDict(data) THEN Raise("TypeError")
    ELSE
    LET dev_wallet_funding ==
            IF "devWalletFunding" \in DOMAIN data.v /\ Truthy(data.v["devWalletFunding"])
            THEN from_xhr(data.v["devWalletFunding"])
            ELSE NoneV
    IN  IF IsRaise(dev_wallet_funding) THEN dev_wallet_funding
        ELSE [t |-> "XHRPulseResponse",
              v |-> [pair_address |-> Get(data, "pairAddress", Str("")),
                     token_address |-> Get(data, "tokenAddress", Str("")),
                     dev_address |-> Get(data, "devAddress", Str("")),
                     token_name |-> Get(data, "tokenName", Str("")),
                     token_ticker |-> Get(data, "tokenTicker", Str("")),
                     token_image |-> Get(data, "tokenImage", NoneV),
                     token_decimals |-> Get(data, "tokenDecimals", Num(0)),
                     protocol |-> Get(data, "protocol", Str("")),
                     protocol_details |-> Get(data, "protocolDetails", EmptyDict),
                     website |-> Get(data, "website", NoneV),
                     twitter |-> Get(data, "twitter", NoneV),
                     telegram |-> Get(data, "telegram", NoneV),
                     discord |-> Get(data, "discord", NoneV),
                     top_10_holders_percent |-> Get(data, "top10HoldersPercent", Num(0)),
                     dev_holds_percent |-> Get(data, "devHoldsPercent", Num(0)),
                     dev_pair_count |-> Get(data, "devPairCount", Num(0)),
                     snipers_hold_percent |-> Get(data, "snipersHoldPercent", Num(0)),
                     insiders_hold_percent |-> Get(data, "insidersHoldPercent", Num(0)),
                     bundlers_hold_percent |-> Get(data, "bundlersHoldPercent", Num(0)),
                     volume_sol |-> Get(data, "volumeSol", Num(0)),
                     market_cap_sol |-> Get(data, "marketCapSol", Num(0)),
                     fees_sol |-> Get(data, "feesSol", Num(0)),
                     liquidity_sol |-> Get(data, "liquiditySol", Num(0)),
                     liquidity_token |-> Get(data, "liquidityToken", Num(0)),
                     bonding_curve_percent |-> Get(data, "bondingCurvePercent", Num(0)),
                     supply |-> Get(data, "supply", Num(0)),
                     num_txns |-> Get(data, "numTxns", Num(0)),
                     num_buys |-> Get(data, "numBuys", Num(0)),
                     num_sells |-> Get(data, "numSells", Num(0)),
                     num_holders |-> Get(data, "numHolders", Num(0)),
                     num_trading_bot_users |-> Get(data, "numTradingBotUsers", Num(0)),
                     created_at |-> Get(data, "createdAt", Str("")),
                     extra |-> Get(data, "extra", NoneV),
                     dex_paid |-> Get(data, "dexPaid", False),
                     migration_count |-> Get(data, "migrationCount", Num(0)),
                     twitter_handle_history |-> Get(data, "twitterHandleHistory", EmptyList),
                     open_trading |-> Get(data, "openTrading", Str("")),
                     dev_wallet_funding |-> dev_wallet_funding,
                     kol_count |-> Get(data, "kolCount", Num(0))]]

----------------------------------------------------------------------------
(* config.py: FilterConfig *)

\* strings are sequences of characters where the code searches inside them
TARGET_HOST == <<"a", "x", "i", "o", "m", ".", "t", "r", "a", "d", "e">>
ROOM_NEW_PAIRS == "new_pairs"
ROOM_UPDATE_PULSE == "update_pulse_v2"

KUCOIN_ADDRESS == Str("KUCOIN")
MEXC_ADDRESS == Str("MEXC")
BYBIT_ADDRESS == Str("BYBIT")

\* __post_init__: the sets an address argument left at None becomes
DefaultDevAddresses == {Str("asdsadasdsa")}
DefaultFunderAddresses == {KUCOIN_ADDRESS, MEXC_ADDRESS, BYBIT_ADDRESS}

\* FilterConfig(FILTER_BY_DEV_ADDRESS=..., FILTER_BY_FUNDING_WALLET=...,
\*              DEV_ADDRESSES=..., FUNDER_ADDRESSES=...)
FilterConfig(byDev, byFunding, devs, funders) ==
    [DEV_ADDRESSES |-> devs,
     FUNDER_ADDRESSES |-> funders,
     FILTER_BY_DEV_ADDRESS |-> byDev,
     FILTER_BY_FUNDING_WALLET |-> byFunding]

\* config = FilterConfig(): the module-level default instance
DefaultConfig ==
    FilterConfig(FALSE, TRUE, DefaultDevAddresses, DefaultFunderAddresses)

\* FilterConfig.add_dev_address
add_dev_address(cfg, address) ==
    [cfg EXCEPT !.DEV_ADDRESSES = @ \cup {address}]

\* FilterConfig.add_funder_address
add_funder_address(cfg, address) ==
    [cfg EXCEPT !.FUNDER_ADDRESSES = @ \cup {address}]

\* FilterConfig.remove_dev_address
remove_dev_address(cfg, address) ==
    [cfg EXCEPT !.DEV_ADDRESSES = @ \ {address}]

\* FilterConfig.remove_funder_address
remove_funder_address(cfg, address) ==
    [cfg EXCEPT !.FUNDER_ADDRESSES = @ \ {address}]

----------------------------------------------------------------------------
(* filters.py: MessageFilter *)

\* the two criteria shared by both evaluators, on a decoded record's
\* dev_address and dev_wallet_funding
KeepDecision(cfg, dev_address, dev_wallet_funding) ==
    IF cfg.FILTER_BY_DEV_ADDRESS /\ ~Hashable(dev_address)
    THEN Raise("TypeError")
    ELSE IF cfg.FILTER_BY_DEV_ADDRESS /\ dev_address \in cfg.DEV_ADDRESSES
    THEN True
    ELSE IF cfg.FILTER_BY_FUNDING_WALLET /\ Truthy(dev_wallet_funding)
    THEN IF ~Hashable(dev_wallet_funding.v.funding_wallet_address)
         THEN Raise("TypeError")
         ELSE Bool(dev_wallet_funding.v.funding_wallet_address
                       \in cfg.FUNDER_ADDRESSES)
    ELSE False

\* MessageFilter.should_keep_update_pulse_item
should_keep_update_pulse_item(cfg, item_array) ==
    The({ IF IsRaise(item) THEN item
          ELSE KeepDecision(cfg, item.v[2], item.v[39]) :
          item \in {from_array(item_array)} })

\* MessageFilter.should_keep_xhr_response
should_keep_xhr_response(cfg, response_dict) ==
    The({ IF IsRaise(response) THEN response
          ELSE KeepDecision(cfg, response.v.dev_address,
                            response.v.dev_wallet_funding) :
          response \in {from_dict(response_dict)} })

\* the list comprehension [x for x in content if keep(x)] over a sequence:
\* the first element whose test raises ends the comprehension with that raise
RECURSIVE Comprehension(_, _, _)
Comprehension(cfg, content, xhr) ==
    IF content = <<>> THEN List(<<>>)
    ELSE The({ IF IsRaise(keep) THEN keep
               ELSE The({ IF IsRaise(rest) THEN rest
                          ELSE IF keep.v THEN List(<<Head(content)>> \o rest.v)
                          ELSE rest :
                          rest \in {Comprehension(cfg, Tail(content), xhr)} }) :
               keep \in {IF xhr THEN should_keep_xhr_response(cfg, Head(content))
                         ELSE should_keep_update_pulse_item(cfg, Head(content))} })

\* MessageFilter.filter_update_pulse_content
filter_update_pulse_content(cfg, content) == Comprehension(cfg, content.v, FALSE)

\* MessageFilter.filter_xhr_responses
filter_xhr_responses(cfg, responses) == Comprehension(cfg, responses.v, TRUE)

\* MessageFilter.should_keep_new_pair
should_keep_new_pair(cfg, content) == True

----------------------------------------------------------------------------
(* filters.py: FilterStats *)

\* FilterStats.__init__
FilterStats ==
    [total_update_pulse_items |-> 0, filtered_update_pulse_items |-> 0,
     total_xhr_responses |-> 0, filtered_xhr_responses |-> 0,
     total_new_pairs |-> 0, filtered_new_pairs |-> 0]

\* record_update_pulse with its two arguments exchanged
record_update_pulse_swapped(st, total, filtered) ==
    [st EXCEPT !.total_update_pulse_items = @ + filtered,
               !.filtered_update_pulse_items = @ + total]

\* FilterStats.record_update_pulse
record_update_pulse(st, total, filtered) ==
    [st EXCEPT !.total_update_pulse_items = @ + total,
               !.filtered_update_pulse_items = @ + filtered]

\* FilterStats.record_xhr
record_xhr(st, total, filtered) ==
    [st EXCEPT !.total_xhr_responses = @ + total,
               !.filtered_xhr_responses = @ + filtered]

\* FilterStats.record_new_pair
record_new_pair(st, kept) ==
    [st EXCEPT !.total_new_pairs = @ + 1,
               !.filtered_new_pairs = IF kept THEN @ + 1 ELSE @]

\* FilterStats.get_summary: the numbers of the three report lines
get_summary(st) ==
    <<"=== Filter Statistics ===",
      <<"Update Pulse", st.filtered_update_pulse_items, st.total_update_pulse_items>>,
      <<"XHR Responses", st.filtered_xhr_responses, st.total_xhr_responses>>,
      <<"New Pairs", st.filtered_new_pairs, st.total_new_pairs>>>>

\* reset that zeroes the totals and leaves the kept counters
reset_totals_only(st) ==
    [st EXCEPT !.total_update_pulse_items = 0,
               !.total_xhr_responses = 0,
               !.total_new_pairs = 0]

\* FilterStats.reset
reset(st) ==
    [st EXCEPT !.total_update_pulse_items = 0,
               !.filtered_update_pulse_items = 0,
               !.total_xhr_responses = 0,
               !.filtered_xhr_responses = 0,
               !.total_new_pairs = 0,
               !.filtered_new_pairs = 0]

----------------------------------------------------------------------------
(* axiom_filter.py: AxiomTradeFilter *)

\* A payload is a text [fmt, json]: json is the value the text parses to, or
\* Malformed; fmt tells the separators apart ("compact" as received, "dumps"
\* as json.dumps writes them, "plain" for a text that has no separator, which
\* reads the same either way); "bytes" is a payload that is not UTF-8.
Malformed == [t |-> "malformed", v |-> 0]

RECURSIVE HasSeparator(_)
HasSeparator(x) ==
    CASE x.t = "dict" -> DOMAIN x.v # {}
      [] x.t = "list" -> Len(x.v) >= 2 \/ \E j \in 1..Len(x.v) : HasSeparator(x.v[j])
      [] OTHER -> FALSE

\* the text a sender writes for a value
Text(data) ==
    [fmt |-> IF HasSeparator(data) THEN "compact" ELSE "plain", json |-> data]

\* json.loads
Loads(text) ==
    IF text.json = Malformed THEN Raise("JSONDecodeError") ELSE text.json

\* json.dumps
Dumps(data) ==
    [fmt |-> IF HasSeparator(data) THEN "dumps" ELSE "plain", json |-> data]

\* s in t for two strings given as sequences of characters
IsSubstring(s, t) ==
    \E k \in 0..(Len(t) - Len(s)) : SubSeq(t, k + 1, k + Len(s)) = s

\* _is_target_host satisfied by all but the last character of the target host
is_target_host_near(f) ==
    LET near == SubSeq(TARGET_HOST, 1, Len(TARGET_HOST) - 1)
    IN  IsSubstring(near, f.host) \/ IsSubstring(near, f.pretty_host)

\* AxiomTradeFilter._is_target_host
is_target_host(f) ==
    IsSubstring(TARGET_HOST, f.host) \/ IsSubstring(TARGET_HOST, f.pretty_host)

\* AxiomTradeFilter._decode_message_content: bytes that are not UTF-8 become
\* "base64:" followed by base64 text, which parses as nothing
decode_message_content(content) ==
    IF content.fmt = "bytes" THEN [fmt |-> "base64", json |-> Malformed]
    ELSE content

\* number of characters of the text searched for the room name
PrefixLen == 50
\* len("new_pairs"), len("update_pulse_v2")
NewPairsLen == 9
UpdatePulseLen == 15

\* _get_room_name looking for the room names in the whole text
get_room_name_anywhere(room_at) ==
    IF room_at.new_pairs >= 0 THEN ROOM_NEW_PAIRS
    ELSE IF room_at.update_pulse_v2 >= 0 THEN ROOM_UPDATE_PULSE
    ELSE "None"

\* AxiomTradeFilter._get_room_name; room_at gives, per room name, where the
\* lower-cased text first holds it (-1: nowhere)
get_room_name(room_at) ==
    IF room_at.new_pairs >= 0 /\ room_at.new_pairs + NewPairsLen <= PrefixLen
    THEN ROOM_NEW_PAIRS
    ELSE IF room_at.update_pulse_v2 >= 0
            /\ room_at.update_pulse_v2 + UpdatePulseLen <= PrefixLen
    THEN ROOM_UPDATE_PULSE
    ELSE "None"

\* WebSocketMessage.drop
drop(message) == [message EXCEPT !.dropped = TRUE]

\* AxiomTradeFilter._filter_update_pulse_message: the message and the
\* statistics it leaves
filter_update_pulse_message(cfg, st, message, text) ==
    LET unchanged == [message |-> message, stats |-> st]
        data == Loads(text)
    IN  IF IsRaise(data) THEN unchanged
        ELSE IF ~IsDict(data) THEN unchanged
        ELSE IF "content" \notin DOMAIN data.v \/ ~IsList(data.v["content"])
        THEN unchanged
        ELSE
        The({
            IF IsRaise(filtered_content) THEN unchanged
            ELSE
            LET original_count == PyLen(data.v["content"])
                recorded ==
                    record_update_pulse(st, original_count, PyLen(filtered_content))
                new_text ==
                    Dumps([data EXCEPT !.v["content"] = filtered_content])
            IN  IF PyLen(filtered_content) = 0
                THEN [message |-> drop(message), stats |-> recorded]
                ELSE IF message.is_text
                THEN [message |-> [message EXCEPT !.content = new_text],
                      stats |-> recorded]
                ELSE [message |-> message, stats |-> recorded] :
            filtered_content \in
                {filter_update_pulse_content(cfg, data.v["content"])} })

\* AxiomTradeFilter._filter_new_pairs_message
filter_new_pairs_message(cfg, st, message, text) ==
    LET unchanged == [message |-> message, stats |-> st]
        data == Loads(text)
    IN  IF IsRaise(data) THEN unchanged
        ELSE IF ~IsDict(data) THEN unchanged
        ELSE IF "content" \notin DOMAIN data.v THEN unchanged
        ELSE
        LET should_keep == should_keep_new_pair(cfg, data.v["content"])
            recorded == record_new_pair(st, should_keep.v)
        IN  IF ~should_keep.v
            THEN [message |-> drop(message), stats |-> recorded]
            ELSE [message |-> message, stats |-> recorded]

\* AxiomTradeFilter.websocket_message: the flow and the statistics it leaves
websocket_message(cfg, st, f) ==
    LET unchanged == [flow |-> f, stats |-> st]
    IN  IF ~is_target_host(f) THEN unchanged
        ELSE IF ~f.has_messages THEN unchanged
        ELSE IF f.message.from_client THEN unchanged
        ELSE
        LET message == f.message
            text == decode_message_content(message.content)
            room == get_room_name(message.room_at)
        IN  IF room = ROOM_UPDATE_PULSE
            THEN The({ [flow |-> [f EXCEPT !.message = r.message],
                        stats |-> r.stats] :
                       r \in {filter_update_pulse_message(cfg, st, message, text)} })
            ELSE IF room = ROOM_NEW_PAIRS
            THEN The({ [flow |-> [f EXCEPT !.message = drop(r.message)],
                        stats |-> r.stats] :
                       r \in {filter_new_pairs_message(cfg, st, message, text)} })
            ELSE unchanged

\* response without the test of the request method
response_any_method(cfg, st, f) ==
    LET unchanged == [flow |-> f, stats |-> st]
    IN  IF f.path # "/pulse" THEN unchanged
        ELSE IF ~is_target_host(f) THEN unchanged
        ELSE
        LET content == Loads(f.content)
        IN  IF IsRaise(content) THEN unchanged
            ELSE IF IsList(content)
            THEN The({
                     IF IsRaise(filtered_content) THEN unchanged
                     ELSE LET original_count == PyLen(content)
                          IN  [flow |-> [f EXCEPT !.content = Dumps(filtered_content)],
                               stats |-> record_xhr(st, original_count,
                                                    PyLen(filtered_content))] :
                     filtered_content \in {filter_xhr_responses(cfg, content)} })
            ELSE IF IsDict(content)
            THEN The({
                     IF IsRaise(should_keep) THEN unchanged
                     ELSE IF ~should_keep.v
                     THEN [flow |-> [f EXCEPT !.content = Dumps(EmptyDict)],
                           stats |-> record_xhr(st, 1, 0)]
                     ELSE [flow |-> f, stats |-> record_xhr(st, 1, 1)] :
                     should_keep \in {should_keep_xhr_response(cfg, content)} })
            ELSE unchanged

\* AxiomTradeFilter.response
response(cfg, st, f) ==
    LET unchanged == [flow |-> f, stats |-> st]
    IN  IF f.path # "/pulse" \/ f.method # "POST" THEN unchanged
        ELSE IF ~is_target_host(f) THEN unchanged
        ELSE
        LET content == Loads(f.content)
        IN  IF IsRaise(content) THEN unchanged
            ELSE IF IsList(content)
            THEN The({
                     IF IsRaise(filtered_content) THEN unchanged
                     ELSE LET original_count == PyLen(content)
                          IN  [flow |-> [f EXCEPT !.content = Dumps(filtered_content)],
                               stats |-> record_xhr(st, original_count,
                                                    PyLen(filtered_content))] :
                     filtered_content \in {filter_xhr_responses(cfg, content)} })
            ELSE IF IsDict(content)
            THEN The({
                     IF IsRaise(should_keep) THEN unchanged
                     ELSE IF ~should_keep.v
                     THEN [flow |-> [f EXCEPT !.content = Dumps(EmptyDict)],
                           stats |-> record_xhr(st, 1, 0)]
                     ELSE [flow |-> f, stats |-> record_xhr(st, 1, 1)] :
                     should_keep \in {should_keep_xhr_response(cfg, content)} })
            ELSE unchanged

----------------------------------------------------------------------------
(* Inputs of the decoders and of the filter *)

\* longest positional array tried: one slot more than the decoder reads
MaxArrayLen == 44
\* longest content list handed to the filter
MaxContent == 2

DEV1 == Str("DEV1")
UNLISTED == Str("UNLISTED")

\* marks a key the object does not have
Missing == [t |-> "missing", v |-> 0]

\* the addresses the configuration's sets are built from; the empty string
\* is the decoders' default for a missing address
Addresses == {DEV1, KUCOIN_ADDRESS, Str("")}

Funding(address) == Dict([k \in {"fundingWalletAddress"} |-> address])

\* what slot 39 / key devWalletFunding may hold
FundingValues ==
    {NoneV, EmptyDict, Funding(KUCOIN_ADDRESS), Funding(UNLISTED),
     Dict([k \in {"walletAddress"} |-> Str("W")]),
     Str("x"), Str(""), Num(1), Num(0), List(<<Num(1)>>), EmptyList}

\* what slot 8 may hold
ProtocolValues ==
    {NoneV, EmptyDict, Dict([k \in {"creator"} |-> Str("C")]), Str("x"),
     List(<<Num(1)>>)}

\* a positional array of n slots: slot 2 the dev address, slot 8 and slot 39
\* as given, every other slot i the number i + 1
PulseArray(n, dev, s8, s39) ==
    List([j \in 1..n |->
            CASE j - 1 = 2 -> dev
              [] j - 1 = 8 -> s8
              [] j - 1 = 39 -> s39
              [] OTHER -> Num(j)])

PulseArrays(devs, s8s, s39s) ==
    {PulseArray(n, dev, s8, s39) :
        n \in 0..MaxArrayLen, dev \in devs, s8 \in s8s, s39 \in s39s}

\* a /pulse object: devAddress and devWalletFunding present or missing
XhrObject(dev, dwf) ==
    Dict([k \in {"pairAddress"} \cup (IF dev = Missing THEN {} ELSE {"devAddress"})
                 \cup (IF dwf = Missing THEN {} ELSE {"devWalletFunding"}) |->
            CASE k = "devAddress" -> dev
              [] k = "devWalletFunding" -> dwf
              [] OTHER -> Str("P")])

XhrObjects ==
    {XhrObject(dev, dwf) : dev \in {DEV1, UNLISTED, Missing},
                           dwf \in FundingValues \cup {Missing}}

\* the items content lists are built from: kept by dev address, kept by
\* funding wallet, short and matching nothing, slot 39 holding a string
SampleItems ==
    {PulseArray(43, DEV1, NoneV, NoneV),
     PulseArray(43, UNLISTED, NoneV, Funding(KUCOIN_ADDRESS)),
     PulseArray(3, UNLISTED, NoneV, NoneV),
     PulseArray(40, UNLISTED, NoneV, Str("x"))}

RECURSIVE SeqsUpTo(_, _)
SeqsUpTo(S, n) ==
    IF n = 0 THEN {<<>>}
    ELSE LET shorter == SeqsUpTo(S, n - 1)
         IN  shorter \cup {Append(s, x) : s \in shorter, x \in S}

ContentLists == {List(s) : s \in SeqsUpTo(SampleItems, MaxContent)}

----------------------------------------------------------------------------
(* The decoders applied to one input at a time *)

Idle == [t |-> "idle", v |-> 0]
NoThreads == <<>>

DecodeInputs ==
    PulseArrays({DEV1, UNLISTED}, ProtocolValues, FundingValues) \cup XhrObjects

InitDecode ==
    /\ config = DefaultConfig
    /\ stats = FilterStats
    /\ flow = Idle
    /\ op = "input"
    /\ arg \in DecodeInputs
    /\ result = NoneV
    /\ threads = NoThreads

DecodeUpdatePulseItem ==
    /\ op = "input"
    /\ IsList(arg)
    /\ op' = "from_array"
    /\ result' = from_array(arg)
    /\ UNCHANGED <<config, stats, flow, arg, threads>>

DecodeXhrResponse ==
    /\ op = "input"
    /\ IsDict(arg)
    /\ op' = "from_dict"
    /\ result' = from_dict(arg)
    /\ UNCHANGED <<config, stats, flow, arg, threads>>

NextDecode == DecodeUpdatePulseItem \/ DecodeXhrResponse

SpecDecode == InitDecode /\ [][NextDecode]_vars

\* C9: decoding an update_pulse item whose slot 39 or slot 8, or an XHR object
\* whose devWalletFunding key, holds a value that is not a keyed object does
\* not raise and leaves the corresponding nested field absent.
C9_NestedMismatchDecodesAbsent ==
    /\ op = "from_array" =>
         \A slot \in {8, 39} :
            (PyLen(arg) > slot /\ ~IsDict(At(arg, slot))) =>
               (~IsRaise(result) /\ result.v[slot] = NoneV)
    /\ op = "from_dict" =>
         (("devWalletFunding" \in DOMAIN arg.v /\ ~IsDict(arg.v["devWalletFunding"])) =>
               (~IsRaise(result) /\ result.v.dev_wallet_funding = NoneV))

\* the part of C9 the decoder meets: slot 8, and the falsy values of slot 39
C9_Slot8MismatchDecodesAbsent ==
    op = "from_array" =>
        /\ (PyLen(arg) > 8 /\ ~IsDict(At(arg, 8)) /\ ~IsRaise(result)) =>
              result.v[8] = NoneV
        /\ (PyLen(arg) > 39 /\ ~Truthy(At(arg, 39))) =>
              (~IsRaise(result) /\ result.v[39] = NoneV)

\* C10: for every array of length 0..43 from_array does not raise, every
\* field whose index is below the length takes the array's value at that
\* index (the two nested fields: the object decoded from it, or absent), and
\* every other field takes its default (nested fields absent).
C10_DecoderTotalTolerance ==
    (op = "from_array" /\ PyLen(arg) <= LastFieldIndex + 1) =>
        /\ ~IsRaise(result)
        /\ \A i \in 0..LastFieldIndex :
              CASE i >= PyLen(arg) -> result.v[i] = FieldDefault(i)
                [] i < PyLen(arg) /\ i = 8 ->
                      result.v[i] = NoneV \/ result.v[i].t = "ProtocolDetails"
                [] i < PyLen(arg) /\ i = 39 ->
                      result.v[i] = NoneV \/ result.v[i].t = "DevWalletFunding"
                [] OTHER -> result.v[i] = At(arg, i)

\* whenever from_array returns, the fields other than the two nested ones
\* are the array's values below its length and the defaults from there on
C10_PlainFieldsDecoded ==
    (op = "from_array" /\ ~IsRaise(result)) =>
        \A i \in (0..LastFieldIndex) \ {8, 39} :
            IF i < PyLen(arg)
            THEN result.v[i] = At(arg, i)
            ELSE result.v[i] = FieldDefault(i)

----------------------------------------------------------------------------
(* The filter applied to one input at a time, under every configuration *)

Configs ==
    {FilterConfig(byDev, byFunding, devs, funders) :
        byDev \in BOOLEAN, byFunding \in BOOLEAN,
        devs \in SUBSET Addresses, funders \in SUBSET Addresses}

InitEval ==
    /\ config \in Configs
    /\ stats = FilterStats
    /\ flow = Idle
    /\ \/ op = "item" /\ arg \in PulseArrays({DEV1, UNLISTED}, {NoneV}, FundingValues)
       \/ op = "object" /\ arg \in XhrObjects
       \/ op = "content" /\ arg \in ContentLists
    /\ result = NoneV
    /\ threads = NoThreads

EvalUpdatePulseItem ==
    /\ op = "item"
    /\ op' = "should_keep_update_pulse_item"
    /\ result' = should_keep_update_pulse_item(config, arg)
    /\ UNCHANGED <<config, stats, flow, arg, threads>>

EvalXhrResponse ==
    /\ op = "object"
    /\ op' = "should_keep_xhr_response"
    /\ result' = should_keep_xhr_response(config, arg)
    /\ UNCHANGED <<config, stats, flow, arg, threads>>

FilterContent ==
    /\ op = "content"
    /\ op' = "filter_update_pulse_content"
    /\ result' = filter_update_pulse_content(config, arg)
    /\ UNCHANGED <<config, stats, flow, arg, threads>>

AddDevAddress ==
    \E a \in Addresses :
        /\ op \in {"item", "object", "content"}
        /\ config' = add_dev_address(config, a)
        /\ UNCHANGED <<stats, flow, op, arg, result, threads>>

AddFunderAddress ==
    \E a \in Addresses :
        /\ op \in {"item", "object", "content"}
        /\ config' = add_funder_address(config, a)
        /\ UNCHANGED <<stats, flow, op, arg, result, threads>>

RemoveDevAddress ==
    \E a \in Addresses :
        /\ op \in {"item", "object", "content"}
        /\ config' = remove_dev_address(config, a)
        /\ UNCHANGED <<stats, flow, op, arg, result, threads>>

RemoveFunderAddress ==
    \E a \in Addresses :
        /\ op \in {"item", "object", "content"}
        /\ config' = remove_funder_address(config, a)
        /\ UNCHANGED <<stats, flow, op, arg, result, threads>>

NextEval ==
    \/ EvalUpdatePulseItem
    \/ EvalXhrResponse
    \/ FilterContent
    \/ AddDevAddress
    \/ AddFunderAddress
    \/ RemoveDevAddress
    \/ RemoveFunderAddress

SpecEval == InitEval /\ [][NextEval]_vars

\* the record's dev address and funding object as the wire record carries them
WireDevAddress(record) ==
    IF IsList(record)
    THEN IF PyLen(record) > 2 THEN At(record, 2) ELSE Str("")
    ELSE Get(record, "devAddress", Str(""))

WireFunding(record) ==
    IF IsList(record)
    THEN IF PyLen(record) > 39 THEN At(record, 39) ELSE NoneV
    ELSE Get(record, "devWalletFunding", NoneV)

\* the decision the two criteria give for a wire record
PolicyDecision(cfg, record) ==
    \/ cfg.FILTER_BY_DEV_ADDRESS /\ WireDevAddress(record) \in cfg.DEV_ADDRESSES
    \/ /\ cfg.FILTER_BY_FUNDING_WALLET
       /\ IsDict(WireFunding(record))
       /\ Truthy(WireFunding(record))
       /\ Get(WireFunding(record), "fundingWalletAddress", Str(""))
             \in cfg.FUNDER_ADDRESSES

\* C1: for every record and every configuration the keep decision of
\* should_keep_update_pulse_item / should_keep_xhr_response equals
\* (dev filter on and dev address listed) or (funding filter on and a funding
\* object present whose funding wallet address is listed).
C1_KeepDecisionIsPolicy ==
    op \in {"should_keep_update_pulse_item", "should_keep_xhr_response"} =>
        result = Bool(PolicyDecision(config, arg))

\* whenever an evaluator returns, it returns the policy's decision
C1_ReturnedDecisionIsPolicy ==
    (op \in {"should_keep_update_pulse_item", "should_keep_xhr_response"}
        /\ ~IsRaise(result)) =>
        result = Bool(PolicyDecision(config, arg))

\* the elements of a content list the evaluator returns true for, in order
KeptElements(cfg, content) ==
    LET Passes(x) == should_keep_update_pulse_item(cfg, x) = True
    IN  SelectSeq(content.v, Passes)

\* C2: filter_update_pulse_content returns exactly the elements the evaluator
\* returns true for, in their original order: no longer than the input, every
\* kept element evaluates to true and every omitted element to false.
C2_FilterReturnsKeptInOrder ==
    op = "filter_update_pulse_content" =>
        /\ IsList(result)
        /\ Len(result.v) <= Len(arg.v)
        /\ result.v = KeptElements(config, arg)
        /\ \A x \in {arg.v[j] : j \in 1..Len(arg.v)} :
              should_keep_update_pulse_item(config, x) =
                  Bool(\E j \in 1..Len(result.v) : result.v[j] = x)

\* whenever filter_update_pulse_content returns, it returns the kept elements
C2_ReturnedListIsKeptInOrder ==
    (op = "filter_update_pulse_content" /\ ~IsRaise(result)) =>
        result.v = KeptElements(config, arg)

----------------------------------------------------------------------------
(* The hooks, one delivered flow at a time *)

\* no flow is delivered once the totals recorded add up to this
MaxRecorded == 2

\* items and objects the delivered lists are built from: kept by dev address,
\* kept by funding wallet, funding value a string
FlowItems ==
    {PulseArray(3, DEV1, NoneV, NoneV),
     PulseArray(40, UNLISTED, NoneV, Funding(KUCOIN_ADDRESS)),
     PulseArray(40, UNLISTED, NoneV, Str("x"))}

FlowObjects ==
    {XhrObject(DEV1, Missing),
     XhrObject(UNLISTED, Funding(KUCOIN_ADDRESS)),
     XhrObject(UNLISTED, Str("x"))}

Envelope(content) ==
    Dict([k \in {"room", "content"} |->
            IF k = "room" THEN Str("r") ELSE content])

\* WebSocket payloads: envelopes around item lists, an envelope whose content
\* is an object, an object without content, a JSON list, text that is not
\* JSON, bytes that are not UTF-8
WsPayloads ==
    {Text(Envelope(List(c))) : c \in SeqsUpTo(FlowItems, MaxContent)}
        \cup {Text(Envelope(Dict([k \in {"token_name"} |-> Str("T")]))),
              Text(Dict([k \in {"room"} |-> Str("r")])),
              Text(List(<<Str("r")>>)),
              [fmt |-> "compact", json |-> Malformed],
              [fmt |-> "bytes", json |-> Malformed]}

\* /pulse bodies: lists of objects, single objects, a number, text that is
\* not JSON
HttpBodies ==
    {Text(List(c)) : c \in SeqsUpTo(FlowObjects, MaxContent)}
        \cup {Text(o) : o \in FlowObjects}
        \cup {Text(EmptyDict), Text(Num(1)), [fmt |-> "compact", json |-> Malformed]}

\* where the room names stand in the lower-cased text: nowhere, update_pulse_v2
\* inside the prefix, starting inside the prefix but ending beyond it,
\* new_pairs inside the prefix, both inside the prefix
RoomAts ==
    {[new_pairs |-> -1, update_pulse_v2 |-> -1],
     [new_pairs |-> -1, update_pulse_v2 |-> 9],
     [new_pairs |-> -1, update_pulse_v2 |-> 36],
     [new_pairs |-> 9, update_pulse_v2 |-> -1],
     [new_pairs |-> 9, update_pulse_v2 |-> 25]}

TargetName == <<"w", "s", ".">> \o TARGET_HOST
OtherName == <<"e", "x", ".", "c", "o", "m">>
Address == <<"1", ".", "2", ".", "3", ".", "4">>
\* the target host's name with its last character missing
NearName == SubSeq(TARGET_HOST, 1, Len(TARGET_HOST) - 1)

\* (server_conn.address[0], request.pretty_host)
HostPairs ==
    {<<Address, TargetName>>, <<TargetName, OtherName>>, <<Address, OtherName>>,
     <<Address, NearName>>}

WsFlows ==
    {[t |-> "ws", host |-> h[1], pretty_host |-> h[2], has_messages |-> TRUE,
      message |-> [from_client |-> fc, is_text |-> it, room_at |-> ra,
                   content |-> c, dropped |-> FALSE]] :
        h \in HostPairs, fc \in BOOLEAN, it \in BOOLEAN, ra \in RoomAts,
        c \in WsPayloads}

\* a flow whose payload is not UTF-8 holds no room name in its base64 text
WellFormedFlow(f) ==
    (f.t = "ws" /\ f.message.content.fmt = "bytes") =>
        /\ f.message.room_at = [new_pairs |-> -1, update_pulse_v2 |-> -1]
        /\ ~f.message.is_text

HttpFlows ==
    {[t |-> "http", host |-> h[1], pretty_host |-> h[2], path |-> p,
      method |-> m, content |-> c] :
        h \in HostPairs, p \in {"/pulse", "/pulse/", "/other"}, m \in {"POST", "GET"},
        c \in HttpBodies}

Flows == {f \in WsFlows \cup HttpFlows : WellFormedFlow(f)}

Recorded(st) ==
    st.total_update_pulse_items + st.total_xhr_responses + st.total_new_pairs

\* AxiomTradeFilter.__init__: a configuration with either criterion on or off
Init ==
    /\ config \in {FilterConfig(byDev, byFunding, {DEV1}, DefaultFunderAddresses) :
                      byDev \in BOOLEAN, byFunding \in BOOLEAN}
    /\ stats = FilterStats
    /\ flow = Idle
    /\ op = "idle"
    /\ arg = NoneV
    /\ result = NoneV
    /\ threads = NoThreads

\* mitmproxy hands the next flow to its hook
Deliver ==
    /\ op = "idle"
    /\ Recorded(stats) < MaxRecorded
    /\ \E f \in Flows :
          /\ flow' = f
          /\ arg' = f
    /\ op' = "pending"
    /\ UNCHANGED <<config, stats, result, threads>>

WebsocketMessage ==
    /\ op = "pending"
    /\ flow.t = "ws"
    /\ \E r \in {websocket_message(config, stats, flow)} :
          /\ flow' = r.flow
          /\ stats' = r.stats
    /\ op' = "websocket_message"
    /\ UNCHANGED <<config, arg, result, threads>>

Response ==
    /\ op = "pending"
    /\ flow.t = "http"
    /\ \E r \in {response(config, stats, flow)} :
          /\ flow' = r.flow
          /\ stats' = r.stats
    /\ op' = "response"
    /\ UNCHANGED <<config, arg, result, threads>>

\* mitmproxy forwards (or suppresses) what the hook left
Forward ==
    /\ op \in {"websocket_message", "response"}
    /\ flow' = Idle
    /\ arg' = NoneV
    /\ op' = "idle"
    /\ UNCHANGED <<config, stats, result, threads>>

\* FilterStats.reset, by the operator
Reset ==
    /\ op = "idle"
    /\ stats' = reset(stats)
    /\ UNCHANGED <<config, flow, op, arg, result, threads>>

\* AxiomTradeFilter.done: at shutdown the summary is written out
Done ==
    /\ op = "idle"
    /\ result' = get_summary(stats)
    /\ op' = "done"
    /\ UNCHANGED <<config, stats, flow, arg, threads>>

Next == Deliver \/ WebsocketMessage \/ Response \/ Forward \/ Reset \/ Done

Spec == Init /\ [][Next]_vars

----------------------------------------------------------------------------
(* Properties of the hooks.  arg is the flow as delivered, flow what the hook
   left of it. *)

\* the hook reached the room dispatch for the delivered WebSocket flow
Dispatched ==
    /\ op = "websocket_message"
    /\ is_target_host(arg)
    /\ arg.has_messages
    /\ ~arg.message.from_client

\* the delivered message is an update_pulse envelope with a content list
UpdatePulseHandled ==
    /\ Dispatched
    /\ get_room_name(arg.message.room_at) = ROOM_UPDATE_PULSE
    /\ arg.message.content.json # Malformed
    /\ IsDict(arg.message.content.json)
    /\ "content" \in DOMAIN arg.message.content.json.v
    /\ IsList(arg.message.content.json.v["content"])

DeliveredContent == arg.message.content.json.v["content"]

\* the items of the delivered content list the policy keeps, in order
PolicyKept(cfg, content) ==
    LET Passes(x) == PolicyDecision(cfg, x)
    IN  SelectSeq(content.v, Passes)

\* C3: an update_pulse message from the target host none of whose content
\* items passes the evaluator (an empty content list included) is dropped, and
\* no handled update_pulse message goes on with an empty content list.
C3_NothingKeptDropsMessage ==
    UpdatePulseHandled =>
        /\ PolicyKept(config, DeliveredContent) = <<>> => flow.message.dropped
        /\ ~flow.message.dropped =>
              flow.message.content.json.v["content"] # EmptyList

\* whenever the filter returns an empty list the message is dropped
C3_EmptyFilterResultDrops ==
    (UpdatePulseHandled
        /\ filter_update_pulse_content(config, DeliveredContent) = EmptyList)
    => flow.message.dropped

\* C4: when at least one item of an update_pulse message passes the
\* evaluator, the message is not dropped and its payload is the envelope with
\* content replaced by the kept items, every other field as delivered, for
\* text and binary frames alike.
C4_KeptItemsRewriteEnvelope ==
    (UpdatePulseHandled /\ PolicyKept(config, DeliveredContent) # <<>>) =>
        /\ ~flow.message.dropped
        /\ flow.message.content.json =
              [arg.message.content.json EXCEPT
                  !.v["content"] = List(PolicyKept(config, DeliveredContent))]

\* for text frames whose items all decode, the payload is the rewritten envelope
C4_TextFrameRewritten ==
    (UpdatePulseHandled /\ arg.message.is_text
        /\ ~IsRaise(filter_update_pulse_content(config, DeliveredContent))
        /\ PolicyKept(config, DeliveredContent) # <<>>) =>
        /\ ~flow.message.dropped
        /\ flow.message.content =
              Dumps([arg.message.content.json EXCEPT
                        !.v["content"] = List(PolicyKept(config, DeliveredContent))])

\* the delivered message is a new_pairs message with content
NewPairsHandled ==
    /\ Dispatched
    /\ get_room_name(arg.message.room_at) = ROOM_NEW_PAIRS
    /\ arg.message.content.json # Malformed
    /\ IsDict(arg.message.content.json)
    /\ "content" \in DOMAIN arg.message.content.json.v

\* C5: a new_pairs message the new-pair policy keeps (it keeps every one) is
\* not dropped and its payload is as delivered.
C5_KeptNewPairSurvives ==
    (NewPairsHandled
        /\ should_keep_new_pair(config, arg.message.content.json.v["content"]) = True)
    => (~flow.message.dropped /\ flow.message.content = arg.message.content)

\* the payload of a new_pairs message is never changed
C5_NewPairPayloadUntouched ==
    NewPairsHandled => flow.message.content = arg.message.content

\* the delivered response is a POST /pulse response from the target host
\* whose body is a single object
PulseObjectHandled ==
    /\ op = "response"
    /\ arg.path = "/pulse"
    /\ arg.method = "POST"
    /\ is_target_host(arg)
    /\ arg.content.json # Malformed
    /\ IsDict(arg.content.json)

\* C6: a single-object POST /pulse body that fails the evaluator is replaced
\* by the empty object {}; one that passes is left unchanged; the response
\* itself always goes on.
C6_SingleObjectKeptOrEmptied ==
    PulseObjectHandled =>
        /\ flow.t = "http"
        /\ IF PolicyDecision(config, arg.content.json)
           THEN flow.content = arg.content
           ELSE flow.content = Dumps(EmptyDict)

\* whenever the evaluator returns, the body is kept or emptied accordingly
C6_DecidedObjectKeptOrEmptied ==
    (PulseObjectHandled
        /\ ~IsRaise(should_keep_xhr_response(config, arg.content.json))) =>
        IF PolicyDecision(config, arg.content.json)
        THEN flow.content = arg.content
        ELSE flow.content = Dumps(EmptyDict)

\* C7: whatever update_pulse, XHR and new_pairs batches were recorded and
\* whenever the statistics were reset, every category has
\* 0 <= kept counter <= total counter.
C7_KeptWithinTotal ==
    /\ 0 <= stats.filtered_update_pulse_items
    /\ stats.filtered_update_pulse_items <= stats.total_update_pulse_items
    /\ 0 <= stats.filtered_xhr_responses
    /\ stats.filtered_xhr_responses <= stats.total_xhr_responses
    /\ 0 <= stats.filtered_new_pairs
    /\ stats.filtered_new_pairs <= stats.total_new_pairs

\* batches of all three categories were recorded, some items kept and some not
C7_Witness ==
    /\ 0 < stats.filtered_update_pulse_items
    /\ stats.filtered_update_pulse_items < stats.total_update_pulse_items
    /\ Recorded(stats) > stats.total_update_pulse_items

----------------------------------------------------------------------------
(* Properties of a hook's step.  In a step from op = "pending" the hook runs:
   flow and stats are what it was handed, flow' and stats' what it leaves. *)

\* the target host string occurs in the connection address or in the host name
FromTargetHost(f) ==
    IsSubstring(TARGET_HOST, f.host) \/ IsSubstring(TARGET_HOST, f.pretty_host)

\* a room tag of that many characters standing at that place lies within the
\* first 50 characters of the lower-cased text
TagInPrefix(at, length) == at >= 0 /\ at + length <= 50

NewPairsTagged(f) == TagInPrefix(f.message.room_at.new_pairs, 9)

UpdatePulseTagged(f) == TagInPrefix(f.message.room_at.update_pulse_v2, 15)

\* a server-to-client WebSocket message of the target host
InboundMessage(f) ==
    /\ f.t = "ws"
    /\ FromTargetHost(f)
    /\ f.has_messages
    /\ ~f.message.from_client

\* a POST /pulse response of the target host
PulseResponse(f) ==
    /\ f.t = "http"
    /\ FromTargetHost(f)
    /\ f.path = "/pulse"
    /\ f.method = "POST"

\* an update_pulse or new_pairs message, or a /pulse response, whose payload
\* does not parse
MalformedPayload(f) ==
    \/ /\ InboundMessage(f)
       /\ NewPairsTagged(f) \/ UpdatePulseTagged(f)
       /\ f.message.content.json = Malformed
    \/ /\ PulseResponse(f)
       /\ f.content.json = Malformed

\* C11: a hook handed an update_pulse or new_pairs message or a /pulse
\* response whose payload does not parse leaves the payload unmodified, does
\* not drop the message and changes no statistics counter.
C11_MalformedPayloadUntouched ==
    [][(op = "pending" /\ MalformedPayload(flow))
          => (flow' = flow /\ stats' = stats)]_vars

\* the same for update_pulse messages and /pulse responses alone
C11_MalformedPulseUntouched ==
    [][(/\ op = "pending"
        /\ MalformedPayload(flow)
        /\ flow.t = "ws" => ~NewPairsTagged(flow))
          => (flow' = flow /\ stats' = stats)]_vars

\* a malformed payload went through a hook
C11_MalformedSeen ==
    /\ op \in {"websocket_message", "response"}
    /\ MalformedPayload(arg)

\* what new-pair handling leaves of a message: its counters, the payload as
\* it was
NewPairsHandling(f, fAfter, st, stAfter) ==
    /\ stAfter = filter_new_pairs_message(
                     config, st, f.message,
                     decode_message_content(f.message.content)).stats
    /\ fAfter.message.content = f.message.content

\* what update-pulse handling leaves of a message
UpdatePulseHandling(f, fAfter, st, stAfter) ==
    LET r == filter_update_pulse_message(
                 config, st, f.message, decode_message_content(f.message.content))
    IN  /\ fAfter.message = r.message
        /\ stAfter = r.stats

\* C12: a server-to-client message of the target host goes to new-pair
\* handling if the new_pairs tag lies within the first 50 characters of its
\* lower-cased text, otherwise to update-pulse handling if the update_pulse_v2
\* tag lies there, otherwise to no handler: with no tag in the prefix, even
\* with one later in the text, the message is neither modified nor dropped and
\* no counter changes.
C12_RoutedByPrefixTags ==
    [][(op = "pending" /\ InboundMessage(flow)) =>
          IF NewPairsTagged(flow)
          THEN NewPairsHandling(flow, flow', stats, stats')
          ELSE IF UpdatePulseTagged(flow)
          THEN UpdatePulseHandling(flow, flow', stats, stats')
          ELSE flow' = flow /\ stats' = stats]_vars

\* a message whose only tag stands beyond the prefix went through the hook
\* untouched
C12_TagBeyondPrefixPassed ==
    /\ op = "websocket_message"
    /\ InboundMessage(arg)
    /\ arg.message.room_at.update_pulse_v2 >= 0
    /\ ~UpdatePulseTagged(arg)
    /\ ~NewPairsTagged(arg)
    /\ arg.message.content.json # Malformed
    /\ flow = arg

\* C13: when the target host string occurs neither in the resolved connection
\* address nor in the requested host name, websocket_message and response
\* leave the flow as it was, payload unmodified and not dropped, and all six
\* counters unchanged, whatever the payload holds.
C13_OtherHostUntouched ==
    [][(op = "pending" /\ ~FromTargetHost(flow))
          => (flow' = flow /\ stats' = stats)]_vars

\* an update_pulse envelope with items, or a POST /pulse list of objects, of
\* another host went through its hook
C13_OtherHostPassed ==
    /\ op \in {"websocket_message", "response"}
    /\ ~FromTargetHost(arg)
    /\ flow = arg
    /\ \/ /\ arg.t = "ws"
          /\ ~arg.message.from_client
          /\ UpdatePulseTagged(arg) /\ ~NewPairsTagged(arg)
          /\ arg.message.content.json # Malformed
          /\ IsDict(arg.message.content.json)
          /\ "content" \in DOMAIN arg.message.content.json.v
          /\ IsList(arg.message.content.json.v["content"])
          /\ PyLen(arg.message.content.json.v["content"]) > 0
       \/ /\ arg.t = "http"
          /\ arg.path = "/pulse" /\ arg.method = "POST"
          /\ arg.content.json # Malformed
          /\ IsList(arg.content.json)
          /\ PyLen(arg.content.json) > 0

\* C14: the response hook changes the response body or a counter only when
\* the request method is POST and the request path is exactly /pulse; for
\* every other method or path the body and all six counters are unchanged.
C14_OnlyPostPulseFiltered ==
    [][(/\ op = "pending"
        /\ flow.t = "http"
        /\ flow.path # "/pulse" \/ flow.method # "POST")
          => (flow' = flow /\ stats' = stats)]_vars

\* a list of objects answered to a GET /pulse, or to a POST of a path that
\* only begins with /pulse, of the target host went through the hook
C14_OtherRequestPassed ==
    /\ op = "response"
    /\ FromTargetHost(arg)
    /\ \/ arg.path = "/pulse" /\ arg.method = "GET"
       \/ arg.path = "/pulse/" /\ arg.method = "POST"
    /\ arg.content.json # Malformed
    /\ IsList(arg.content.json)
    /\ PyLen(arg.content.json) > 0
    /\ flow = arg

AllZero(st) ==
    /\ st.total_update_pulse_items = 0 /\ st.filtered_update_pulse_items = 0
    /\ st.total_xhr_responses = 0 /\ st.filtered_xhr_responses = 0
    /\ st.total_new_pairs = 0 /\ st.filtered_new_pairs = 0

\* after differs from before by one recorded batch: n added to one category's
\* total and k <= n to its kept counter
OneBatchRecorded(before, after) ==
    \E n \in 0..MaxContent, k \in 0..MaxContent :
        /\ k <= n
        /\ \/ after = [before EXCEPT !.total_update_pulse_items = @ + n,
                                     !.filtered_update_pulse_items = @ + k]
           \/ after = [before EXCEPT !.total_xhr_responses = @ + n,
                                     !.filtered_xhr_responses = @ + k]
           \/ after = [before EXCEPT !.total_new_pairs = @ + n,
                                     !.filtered_new_pairs = @ + k]

\* C15: get_summary (written out by done) leaves all six counters unchanged,
\* reset leaves all six at zero, and a counter changes only in a reset or in
\* a hook that records a batch.
C15_SummaryAndResetFrame ==
    [][/\ (op = "idle" /\ op' = "done") => stats' = stats
       /\ (op = "idle" /\ op' = "idle") => AllZero(stats')
       /\ stats' # stats =>
             \/ op = "idle" /\ op' = "idle"
             \/ op = "pending" /\ OneBatchRecorded(stats, stats')]_vars

\* the summary was produced from counters that are not all zero, and they
\* stand as the summary reports them
C15_SummaryOfRecorded ==
    /\ op = "done"
    /\ ~AllZero(stats)
    /\ result = <<"=== Filter Statistics ===",
                  <<"Update Pulse", stats.filtered_update_pulse_items,
                    stats.total_update_pulse_items>>,
                  <<"XHR Responses", stats.filtered_xhr_responses,
                    stats.total_xhr_responses>>,
                  <<"New Pairs", stats.filtered_new_pairs, stats.total_new_pairs>>>>

\* the parsed payload of a flow
Payload(f) == IF f.t = "ws" THEN f.message.content.json ELSE f.content.json

\* the decision batches: an update_pulse envelope with a content list, a
\* new_pairs envelope, a /pulse list, a /pulse single object
UpdatePulseBatch(f) ==
    /\ InboundMessage(f)
    /\ UpdatePulseTagged(f) /\ ~NewPairsTagged(f)
    /\ IsDict(Payload(f))
    /\ "content" \in DOMAIN Payload(f).v
    /\ IsList(Payload(f).v["content"])

NewPairsBatch(f) ==
    /\ InboundMessage(f)
    /\ NewPairsTagged(f)
    /\ IsDict(Payload(f))
    /\ "content" \in DOMAIN Payload(f).v

XhrListBatch(f) == PulseResponse(f) /\ IsList(Payload(f))

XhrObjectBatch(f) == PulseResponse(f) /\ IsDict(Payload(f))

\* the counters after the batch of flow f was counted into st
BatchCounted(cfg, st, f) ==
    IF UpdatePulseBatch(f)
    THEN [st EXCEPT
            !.total_update_pulse_items = @ + PyLen(Payload(f).v["content"]),
            !.filtered_update_pulse_items =
                @ + Len(PolicyKept(cfg, Payload(f).v["content"]))]
    ELSE IF NewPairsBatch(f)
    THEN [st EXCEPT !.total_new_pairs = @ + 1, !.filtered_new_pairs = @ + 1]
    ELSE IF XhrListBatch(f)
    THEN [st EXCEPT
            !.total_xhr_responses = @ + PyLen(Payload(f)),
            !.filtered_xhr_responses = @ + Len(PolicyKept(cfg, Payload(f)))]
    ELSE IF XhrObjectBatch(f)
    THEN [st EXCEPT
            !.total_xhr_responses = @ + 1,
            !.filtered_xhr_responses =
                @ + (IF PolicyDecision(cfg, Payload(f)) THEN 1 ELSE 0)]
    ELSE st

IsBatch(f) ==
    UpdatePulseBatch(f) \/ NewPairsBatch(f) \/ XhrListBatch(f) \/ XhrObjectBatch(f)

\* every record of the batch decodes, so the evaluator decides each of them
BatchDecodes(cfg, f) ==
    /\ UpdatePulseBatch(f) =>
          ~IsRaise(filter_update_pulse_content(cfg, Payload(f).v["content"]))
    /\ (XhrListBatch(f) /\ ~UpdatePulseBatch(f) /\ ~NewPairsBatch(f)) =>
          ~IsRaise(filter_xhr_responses(cfg, Payload(f)))
    /\ (XhrObjectBatch(f) /\ ~UpdatePulseBatch(f) /\ ~NewPairsBatch(f)) =>
          ~IsRaise(should_keep_xhr_response(cfg, Payload(f)))

\* C16: every decision batch adds exactly its counts to its own category's
\* pair and nothing to the other two: an update_pulse message with n items of
\* which k are kept adds (n, k), a /pulse list (n, k), a /pulse single object
\* (1, 1 if kept else 0), a new_pairs message (1, 1 if kept else 0).
C16_BatchCountsExact ==
    [][(op = "pending" /\ IsBatch(flow))
          => stats' = BatchCounted(config, stats, flow)]_vars

\* the counts are exact for every batch whose records all decode
C16_DecodedBatchCountsExact ==
    [][(op = "pending" /\ IsBatch(flow) /\ BatchDecodes(config, flow))
          => stats' = BatchCounted(config, stats, flow)]_vars

\* C17: a POST /pulse response of the target host whose body is a list has
\* its body replaced by the sublist, in order, of the elements that pass the
\* evaluator; when none passes the body is the empty list.
C17_ListBodyFiltered ==
    [][(op = "pending" /\ XhrListBatch(flow))
          => flow'.content.json = List(PolicyKept(config, Payload(flow)))]_vars

\* the body is the kept sublist, written by json.dumps, for every list whose
\* elements all decode
C17_DecodedListBodyFiltered ==
    [][(op = "pending" /\ XhrListBatch(flow) /\ BatchDecodes(config, flow))
          => flow'.content = Dumps(List(PolicyKept(config, Payload(flow))))]_vars

----------------------------------------------------------------------------
(* FilterStats under overlapping invocations.  The class holds no lock; each
   "counter += n" is a read of the attribute followed by a write of the sum,
   and another invocation may run in between. *)

\* invocations that overlap
NumInvocations == 2

Invocations == 1..NumInvocations

\* what an invocation records: record_update_pulse(total, kept),
\* record_xhr(total, kept) or record_new_pair(kept)
Batches ==
    {[category |-> c, total |-> n, kept |-> k] :
        c \in {"update_pulse", "xhr"}, n \in 1..MaxContent, k \in 0..MaxContent}
    \cup {[category |-> "new_pairs", total |-> 1, kept |-> k] : k \in 0..1}

TotalCounter(category) ==
    CASE category = "update_pulse" -> "total_update_pulse_items"
      [] category = "xhr" -> "total_xhr_responses"
      [] category = "new_pairs" -> "total_new_pairs"

KeptCounter(category) ==
    CASE category = "update_pulse" -> "filtered_update_pulse_items"
      [] category = "xhr" -> "filtered_xhr_responses"
      [] category = "new_pairs" -> "filtered_new_pairs"

InitConc ==
    /\ config = DefaultConfig
    /\ stats = FilterStats
    /\ flow = Idle
    /\ op = "record"
    /\ arg = NoneV
    /\ result = NoneV
    /\ threads \in [Invocations ->
                      {[pc |-> "load_total", batch |-> b, tmp |-> 0] :
                          b \in {x \in Batches : x.kept <= x.total}}]

\* self.total_... += total: the read
LoadTotal(i) ==
    /\ threads[i].pc = "load_total"
    /\ threads' = [threads EXCEPT
                     ![i].tmp = stats[TotalCounter(threads[i].batch.category)],
                     ![i].pc = "store_total"]
    /\ UNCHANGED <<config, stats, flow, op, arg, result>>

\* self.total_... += total: the write; record_new_pair(False) ends here
StoreTotal(i) ==
    /\ threads[i].pc = "store_total"
    /\ stats' = [stats EXCEPT ![TotalCounter(threads[i].batch.category)] =
                                 threads[i].tmp + threads[i].batch.total]
    /\ threads' = [threads EXCEPT
                     ![i].pc = IF threads[i].batch.category = "new_pairs"
                                  /\ threads[i].batch.kept = 0
                               THEN "done" ELSE "load_kept"]
    /\ UNCHANGED <<config, flow, op, arg, result>>

\* self.filtered_... += filtered: the read
LoadKept(i) ==
    /\ threads[i].pc = "load_kept"
    /\ threads' = [threads EXCEPT
                     ![i].tmp = stats[KeptCounter(threads[i].batch.category)],
                     ![i].pc = "store_kept"]
    /\ UNCHANGED <<config, stats, flow, op, arg, result>>

\* self.filtered_... += filtered: the write
StoreKept(i) ==
    /\ threads[i].pc = "store_kept"
    /\ stats' = [stats EXCEPT ![KeptCounter(threads[i].batch.category)] =
                                 threads[i].tmp + threads[i].batch.kept]
    /\ threads' = [threads EXCEPT ![i].pc = "done"]
    /\ UNCHANGED <<config, flow, op, arg, result>>

NextConc ==
    \E i \in Invocations :
        LoadTotal(i) \/ StoreTotal(i) \/ LoadKept(i) \/ StoreKept(i)

SpecConc == InitConc /\ [][NextConc]_vars

RECURSIVE SumOver(_, _, _)
SumOver(ids, category, field) ==
    IF ids = {} THEN 0
    ELSE LET i == CHOOSE j \in ids : TRUE
         IN  (IF threads[i].batch.category = category
              THEN threads[i].batch[field] ELSE 0)
             + SumOver(ids \ {i}, category, field)

AllDone == \A i \in Invocations : threads[i].pc = "done"

\* C8: when overlapping invocations record statistics for the same category,
\* no update is lost: once all have finished, the category's total and kept
\* counters are the initial values plus the sums of the recorded totals and
\* kepts, under every interleaving.
C8_NoLostUpdate ==
    AllDone =>
        \A c \in {"update_pulse", "xhr", "new_pairs"} :
            /\ stats[TotalCounter(c)] = SumOver(Invocations, c, "total")
            /\ stats[KeptCounter(c)] = SumOver(Invocations, c, "kept")

\* invocations on different categories never disturb each other
C8_DistinctCategoriesExact ==
    (AllDone /\ \A i, j \in Invocations :
                    i # j => threads[i].batch.category # threads[j].batch.category)
    => \A c \in {"update_pulse", "xhr", "new_pairs"} :
            /\ stats[TotalCounter(c)] = SumOver(Invocations, c, "total")
            /\ stats[KeptCounter(c)] = SumOver(Invocations, c, "kept")

====
